---- MODULE Spec2Model ----
(***************************************************************************)
(* A model of src/outdated.rs: the option model, the construction of the   *)
(* dotnet-outdated command line, and the protocol of outdated(): scoped    *)
(* temporary directory, external process, exit-status classification,      *)
(* report read and deserialization.  The file system and the external      *)
(* tool are the environment; several calls of outdated() may run at once.  *)
(***************************************************************************)
EXTENDS Integers, Sequences, FiniteSets, TLC

(***************************************************************************)
(* Bounds of the model.                                                    *)
(***************************************************************************)
\* number of calls of outdated() that may run concurrently
NCalls == 2
\* longest include / exclude list
MaxNames == 2
\* largest transitive depth drawn (two decimal digits)
MaxDepth == 10

Calls == 1..NCalls

(***************************************************************************)
(* Option model (lines 6-141).                                             *)
(***************************************************************************)
VersionLock == {"VersionLock::None", "VersionLock::Major", "VersionLock::Minor"}

PreRelease == {"PreRelease::Never", "PreRelease::Auto", "PreRelease::Always"}

\* impl Default for VersionLock
VersionLockDefault == "VersionLock::None"

\* impl Default for PreRelease
PreReleaseDefault == "PreRelease::Auto"

\* impl Display for VersionLock, written with a lower-case rendering
VersionLockLowerCase(v) ==
    CASE v = "VersionLock::None" -> "none"
      [] v = "VersionLock::Major" -> "major"
      [] v = "VersionLock::Minor" -> "minor"

\* impl Display for VersionLock
VersionLockToString(v) ==
    CASE v = "VersionLock::None" -> "None"
      [] v = "VersionLock::Major" -> "Major"
      [] v = "VersionLock::Minor" -> "Minor"

\* impl Display for PreRelease
PreReleaseToString(p) ==
    CASE p = "PreRelease::Never" -> "Never"
      [] p = "PreRelease::Auto" -> "Auto"
      [] p = "PreRelease::Always" -> "Always"

\* Option<PathBuf>
NoInputDir == [some |-> FALSE]

SomeInputDir(p) == [some |-> TRUE, path |-> p]

\* #[derive(Default)] on DotnetOutdatedOptions: every field takes the Default
\* of its type (bool: false, Vec: empty, u64: 0, Option: None, the two enums
\* their impl Default).  The clap default_value attributes are not used by it.
DefaultOptions ==
    [ include_auto_references |-> FALSE,
      pre_release             |-> PreReleaseDefault,
      include                 |-> << >>,
      exclude                 |-> << >>,
      transitive              |-> FALSE,
      transitive_depth        |-> 0,
      version_lock            |-> VersionLockDefault,
      input_dir               |-> NoInputDir ]

\* package names a caller may pass; a name is an arbitrary string
PackageNames == {"Foo", "--pre-release"}

\* directories a caller may pass; a path is an arbitrary string
InputDirs == {NoInputDir, SomeInputDir("sln"), SomeInputDir("--version-lock")}

Depths == {0, 1, MaxDepth}

SeqsUpTo(S, n) == UNION {[1..k -> S] : k \in 0..n}

\* every value of DotnetOutdatedOptions within the bounds
AllOptions ==
    [ include_auto_references : BOOLEAN,
      pre_release             : PreRelease,
      include                 : SeqsUpTo(PackageNames, MaxNames),
      exclude                 : SeqsUpTo(PackageNames, MaxNames),
      transitive              : BOOLEAN,
      transitive_depth        : Depths,
      version_lock            : VersionLock,
      input_dir               : InputDirs ]

\* an options value with every optional part of the command line present
LoadedOptions ==
    [ include_auto_references |-> TRUE,
      pre_release             |-> "PreRelease::Always",
      include                 |-> <<"Foo">>,
      exclude                 |-> <<"--pre-release">>,
      transitive              |-> TRUE,
      transitive_depth        |-> MaxDepth,
      version_lock            |-> "VersionLock::Minor",
      input_dir               |-> SomeInputDir("sln") ]

(***************************************************************************)
(* Text conversions.                                                       *)
(***************************************************************************)
Digit(d) ==
    CASE d = 0 -> "0" [] d = 1 -> "1" [] d = 2 -> "2" [] d = 3 -> "3"
      [] d = 4 -> "4" [] d = 5 -> "5" [] d = 6 -> "6" [] d = 7 -> "7"
      [] d = 8 -> "8" [] d = 9 -> "9"

RECURSIVE U64ToString(_)
\* u64::to_string: decimal, no sign, no leading zeros
U64ToString(n) ==
    IF n < 10 THEN Digit(n) ELSE U64ToString(n \div 10) \o Digit(n % 10)

IsCont(b) == b >= 128 /\ b <= 191

RECURSIVE Utf8Valid(_)
\* std::str::from_utf8 succeeds on exactly the well-formed byte sequences
Utf8Valid(bs) ==
    IF bs = << >> THEN TRUE
    ELSE LET b == Head(bs)
             n == Len(bs)
         IN  IF b <= 127 THEN Utf8Valid(Tail(bs))
             ELSE IF b >= 194 /\ b <= 223
                  THEN n >= 2 /\ IsCont(bs[2]) /\ Utf8Valid(SubSeq(bs, 3, n))
             ELSE IF b >= 224 /\ b <= 239
                  THEN /\ n >= 3
                       /\ IsCont(bs[2]) /\ IsCont(bs[3])
                       /\ (b = 224 => bs[2] >= 160)
                       /\ (b = 237 => bs[2] <= 159)
                       /\ Utf8Valid(SubSeq(bs, 4, n))
             ELSE IF b >= 240 /\ b <= 244
                  THEN /\ n >= 4
                       /\ IsCont(bs[2]) /\ IsCont(bs[3]) /\ IsCont(bs[4])
                       /\ (b = 240 => bs[2] >= 144)
                       /\ (b = 244 => bs[2] <= 143)
                       /\ Utf8Valid(SubSeq(bs, 5, n))
             ELSE FALSE

(***************************************************************************)
(* Command construction (lines 246-287).                                   *)
(***************************************************************************)
RECURSIVE FlagPairs(_, _)
\* for x in names { cmd.args([flag, x]) }
FlagPairs(flag, names) ==
    IF names = << >> THEN << >>
    ELSE <<flag, Head(names)>> \o FlagPairs(flag, Tail(names))

\* the transitive block with the depth flag left out
TransitiveArgsNoDepth(o) ==
    IF o.transitive THEN <<"--transitive">> ELSE << >>

\* if options.transitive { cmd.args([...]) }
TransitiveArgs(o) ==
    IF o.transitive
    THEN <<"--transitive", "--transitive-depth", U64ToString(o.transitive_depth)>>
    ELSE << >>

\* the arguments given to Command::new("dotnet"), in the order of the cmd.args calls
BuildArgs(o, output_file) ==
    <<"outdated", "--fail-on-updates", "--output", output_file,
      "--output-format", "json">>
    \o (IF o.include_auto_references THEN <<"--include-auto-references">> ELSE << >>)
    \o <<"--pre-release", PreReleaseToString(o.pre_release)>>
    \o FlagPairs("--include", o.include)
    \o FlagPairs("--exclude", o.exclude)
    \o TransitiveArgs(o)
    \o <<"--version-lock", VersionLockToString(o.version_lock)>>
    \o (IF o.input_dir.some THEN <<o.input_dir.path>> ELSE << >>)

(***************************************************************************)
(* Report model (lines 143-196) and its deserialization (lines 312-313).   *)
(* A report file holds a JSON document, or text that is no JSON.           *)
(***************************************************************************)
Severity == {"Major", "Minor", "Patch"}

JsonDependency(sev) ==
    [ Name |-> "Foo", ResolvedVersion |-> "1.0.0", LatestVersion |-> "2.0.0",
      UpgradeSeverity |-> sev ]

JsonReport(deps) ==
    [ kind  |-> "json",
      value |-> [ Projects |->
                   << [ Name |-> "App", FilePath |-> "/src/App.csproj",
                        TargetFrameworks |->
                          << [ Name |-> "net6.0", Dependencies |-> deps ] >> ] >> ] ]

\* a report that lists no project
ReportEmpty == [kind |-> "json", value |-> [Projects |-> << >>]]

\* a report that lists one outdated dependency
ReportDeps == JsonReport(<<JsonDependency("Major")>>)

\* a report whose UpgradeSeverity is outside the enum
ReportBadSeverity == JsonReport(<<JsonDependency("Minor"), JsonDependency("Critical")>>)

\* a report whose dependency lacks a required field
ReportMissingField == JsonReport(<<[Name |-> "Foo", ResolvedVersion |-> "1.0.0"]>>)

\* a file that is not JSON
ReportNotJson == [kind |-> "text"]

\* no file at the path
NoFile == [kind |-> "nofile"]

DeOk(d) == [ok |-> TRUE, data |-> d]

DeErr(p) == [ok |-> FALSE, path |-> p]

\* Vec<T> from the results rs of its elements, in order; the first failing
\* element decides the error
DeserSeq(rs, field) ==
    LET bad == {i \in 1..Len(rs) : ~rs[i].ok}
    IN  IF bad = {}
        THEN DeOk([i \in 1..Len(rs) |-> rs[i].data])
        ELSE LET i == CHOOSE k \in bad : \A m \in bad : k <= m
             IN  DeErr(field \o "[" \o U64ToString(i - 1) \o "]" \o rs[i].path)

\* struct Dependency, #[serde(rename_all = "PascalCase")]
DeserDependency(j) ==
    IF ~({"Name", "ResolvedVersion", "LatestVersion", "UpgradeSeverity"} \subseteq DOMAIN j)
    THEN DeErr("")
    ELSE IF j.UpgradeSeverity \notin Severity
    THEN DeErr(".UpgradeSeverity")
    ELSE DeOk([ name             |-> j.Name,
                resolved_version |-> j.ResolvedVersion,
                latest_version   |-> j.LatestVersion,
                upgrade_severity |-> j.UpgradeSeverity ])

\* struct Framework
DeserFramework(j) ==
    IF ~({"Name", "Dependencies"} \subseteq DOMAIN j)
    THEN DeErr("")
    ELSE LET ds == DeserSeq([i \in 1..Len(j.Dependencies) |-> DeserDependency(j.Dependencies[i])],
                              ".Dependencies")
         IN  IF ds.ok THEN DeOk([name |-> j.Name, dependencies |-> ds.data]) ELSE ds

\* struct Project
DeserProject(j) ==
    IF ~({"Name", "FilePath", "TargetFrameworks"} \subseteq DOMAIN j)
    THEN DeErr("")
    ELSE LET fs == DeserSeq([i \in 1..Len(j.TargetFrameworks) |->
                                 DeserFramework(j.TargetFrameworks[i])],
                              ".TargetFrameworks")
         IN  IF fs.ok
             THEN DeOk([ name |-> j.Name, file_path |-> j.FilePath,
                         target_frameworks |-> fs.data ])
             ELSE fs

\* serde_path_to_error::deserialize::<DotnetOutdatedData> of the file's text
Deserialize(content) ==
    IF content.kind # "json" THEN DeErr("")
    ELSE IF ~({"Projects"} \subseteq DOMAIN content.value) THEN DeErr("")
    ELSE LET ps == DeserSeq([i \in 1..Len(content.value.Projects) |->
                                 DeserProject(content.value.Projects[i])],
                              "Projects")
         IN  IF ps.ok THEN DeOk([projects |-> ps.data]) ELSE ps

(***************************************************************************)
(* Results of outdated() (lines 214-239).                                  *)
(***************************************************************************)
UpToDate == "IndicatedUpdateRequirement::UpToDate"

UpdateRequired == "IndicatedUpdateRequirement::UpdateRequired"

NoVerdict == "unset"

\* the two verdicts exchanged
ClassifyInverted(code) == IF code = 0 THEN UpdateRequired ELSE UpToDate

\* ExitStatus::success(): the exit code is 0
Success(code) == code = 0

\* lines 302-306
Classify(code) == IF Success(code) THEN UpToDate ELSE UpdateRequired

Pending == [kind |-> "Pending"]

Ok(verdict, data) == [kind |-> "Ok", verdict |-> verdict, data |-> data]

Err(e) == [kind |-> "Err", error |-> e]

(***************************************************************************)
(* Environment: temporary directories and what the external tool may do.   *)
(***************************************************************************)
\* names tempfile::tempdir() may give: one per call, and one under a
\* temporary root whose name is no valid Unicode
TmpDirName(i) == "/tmp/.tmp" \o U64ToString(i)

NonUtf8Dir == "/tmp-<80>/.tmp0"

DirNames == {TmpDirName(i) : i \in Calls} \cup {NonUtf8Dir}

NoDir == "<no dir>"

NoStr == "<no str>"

\* Path::join("outdated.json")
Join(d) == d \o "/outdated.json"

\* Path::to_str: Some(text) iff the path is valid Unicode
ToStr(path) == IF path = Join(NonUtf8Dir) THEN NoStr ELSE path

\* the directory that holds the file at `path`
ParentDir(path) == CHOOSE d \in DirNames : Join(d) = path

\* the path the tool is told to write its report to: the value of --output
OutputArg(argv) ==
    LET i == CHOOSE k \in 1..(Len(argv) - 1) :
                 argv[k] = "--output" /\ \A m \in 1..(k - 1) : argv[m] # "--output"
    IN  argv[i + 1]

\* what the calls and the tool draw from, with a single call
RichSamples ==
    [ options |-> {DefaultOptions, LoadedOptions},
      codes   |-> {0, 1, 2},
      stdout  |-> {<< >>, <<111, 107>>, <<255>>},
      stderr  |-> {<< >>, <<195, 169>>, <<195>>},
      reports |-> {ReportEmpty, ReportDeps, ReportBadSeverity, ReportMissingField,
                   ReportNotJson},
      enabled |-> [debug : BOOLEAN, warn : BOOLEAN] ]

\* what the calls and the tool draw from, with NCalls calls at once
LeanSamples ==
    [ options |-> {DefaultOptions},
      codes   |-> {0, 1},
      stdout  |-> {<< >>},
      stderr  |-> {<< >>},
      reports |-> {ReportEmpty, ReportDeps},
      enabled |-> [debug : {TRUE}, warn : {TRUE}] ]

NoOutput == [code |-> -1, stdout |-> << >>, stderr |-> << >>]

NoProc == [state |-> "none", wrote |-> NoFile]

(***************************************************************************)
(* State.                                                                  *)
(***************************************************************************)
VARIABLES
    samples,              \* the sample sets of this run (fixed by Init)
    enabled,              \* which tracing events the subscriber enables
    dirs,                 \* the temporary directories that exist
    files,                \* files[d]: the content of d/outdated.json, or NoFile
    proc,                 \* proc[c]: the external process of call c
    pc,                   \* pc[c]: where call c is
    opts,                 \* opts[c]: the options borrowed by call c
    output_dir,           \* line 240
    output_file,          \* line 242
    args,                 \* the arguments of cmd
    output,               \* line 289
    update_requirement,   \* line 302
    output_file_content,  \* line 308
    result,               \* what call c returned
    trace                 \* the steps call c has executed, in order

vars == <<samples, enabled, dirs, files, proc, pc, opts, output_dir, output_file, args,
          output, update_requirement, output_file_content, result, trace>>

\* tempfile::tempdir() creates a directory under a name not in use
TempdirNamesAny(D) == DirNames

TempdirNames(D) == DirNames \ D

\* TempDir's drop leaving the directory behind
RemoveDirAllLeak(D, d) == D

\* TempDir::drop: remove_dir_all of the directory
RemoveDirAll(D, d) == D \ {d}

\* the files gone with the directory
RemoveFiles(F, d) == IF d \in DOMAIN F THEN [F EXCEPT ![d] = NoFile] ELSE F

\* return r from call c; output_dir, when bound, goes out of scope
Return(c, r) ==
    /\ result' = [result EXCEPT ![c] = r]
    /\ pc' = [pc EXCEPT ![c] = "done"]
    /\ dirs' = RemoveDirAll(dirs, output_dir[c])
    /\ files' = RemoveFiles(files, output_dir[c])

Step(c, name, ok) ==
    trace' = [trace EXCEPT ![c] = Append(@, [step |-> name, ok |-> ok])]

InitWith(S, live) ==
    /\ samples = S
    /\ enabled \in S.enabled
    /\ dirs = {}
    /\ files = [d \in DirNames |-> NoFile]
    /\ proc = [c \in Calls |-> NoProc]
    /\ pc = [c \in Calls |-> IF c \in live THEN "start" ELSE "unused"]
    /\ output_dir = [c \in Calls |-> NoDir]
    /\ output_file = [c \in Calls |-> NoStr]
    /\ args = [c \in Calls |-> << >>]
    /\ output = [c \in Calls |-> NoOutput]
    /\ update_requirement = [c \in Calls |-> NoVerdict]
    /\ output_file_content = [c \in Calls |-> NoFile]
    /\ result = [c \in Calls |-> Pending]
    /\ trace = [c \in Calls |-> << >>]

\* one call, every sample
Init ==
    /\ InitWith(RichSamples, {1})
    /\ \E o \in RichSamples.options :
          opts = [c \in Calls |-> IF c = 1 THEN o ELSE DefaultOptions]

\* NCalls calls at once
InitPar ==
    /\ InitWith(LeanSamples, Calls)
    /\ opts \in [Calls -> LeanSamples.options]

\* one call that has its temporary directory, every options value
InitArgs ==
    /\ samples = LeanSamples
    /\ enabled \in LeanSamples.enabled
    /\ \E d \in {TmpDirName(1), NonUtf8Dir} :
          /\ dirs = {d}
          /\ output_dir = [c \in Calls |-> IF c = 1 THEN d ELSE NoDir]
    /\ files = [d \in DirNames |-> NoFile]
    /\ proc = [c \in Calls |-> NoProc]
    /\ pc = [c \in Calls |-> IF c = 1 THEN "conv" ELSE "unused"]
    /\ \E o \in AllOptions \cup {DefaultOptions} :
          opts = [c \in Calls |-> IF c = 1 THEN o ELSE DefaultOptions]
    /\ output_file = [c \in Calls |-> NoStr]
    /\ args = [c \in Calls |-> << >>]
    /\ output = [c \in Calls |-> NoOutput]
    /\ update_requirement = [c \in Calls |-> NoVerdict]
    /\ output_file_content = [c \in Calls |-> NoFile]
    /\ result = [c \in Calls |-> Pending]
    /\ trace = [c \in Calls |-> IF c = 1 THEN <<[step |-> "tempdir", ok |-> TRUE]>>
                                ELSE << >>]

(***************************************************************************)
(* outdated(), lines 237-315, one action per step of a call.               *)
(***************************************************************************)
\* line 240: tempfile::tempdir()?
Tempdir(c) ==
    /\ pc[c] = "start"
    /\ \E d \in TempdirNames(dirs) \cup {NoDir} :
          IF d = NoDir
          THEN /\ Return(c, Err("Io"))
               /\ Step(c, "tempdir", FALSE)
               /\ UNCHANGED output_dir
          ELSE /\ dirs' = dirs \cup {d}
               /\ output_dir' = [output_dir EXCEPT ![c] = d]
               /\ pc' = [pc EXCEPT ![c] = "conv"]
               /\ Step(c, "tempdir", TRUE)
               /\ UNCHANGED <<files, result>>
    /\ UNCHANGED <<samples, enabled, proc, opts, output_file, args, output,
                   update_requirement, output_file_content>>

\* lines 241-287: the report path as text, then the command
PathToStr(c) ==
    /\ pc[c] = "conv"
    /\ LET p == ToStr(Join(output_dir[c]))
       IN  IF p = NoStr
           THEN /\ Return(c, Err("PathConversionError"))
                /\ Step(c, "to_str", FALSE)
                /\ UNCHANGED <<output_file, args>>
           ELSE /\ output_file' = [output_file EXCEPT ![c] = p]
                /\ args' = [args EXCEPT ![c] = BuildArgs(opts[c], p)]
                /\ pc' = [pc EXCEPT ![c] = "spawn"]
                /\ Step(c, "to_str", TRUE)
                /\ UNCHANGED <<dirs, files, result>>
    /\ UNCHANGED <<samples, enabled, proc, opts, output_dir, output,
                   update_requirement, output_file_content>>

\* where a call goes when the process cannot be spawned: it tries again
AfterSpawnFailureRetry(c) ==
    /\ Step(c, "spawn", FALSE)
    /\ UNCHANGED <<dirs, files, result, pc>>

\* line 289, cmd.output()? when the process cannot be spawned
AfterSpawnFailure(c) ==
    /\ Return(c, Err("Io"))
    /\ Step(c, "spawn", FALSE)

\* line 289: cmd.output() spawns the process
Spawn(c) ==
    /\ pc[c] = "spawn"
    /\ \E spawned \in BOOLEAN :
          IF spawned
          THEN /\ proc' = [proc EXCEPT ![c] = [state |-> "running", wrote |-> NoFile]]
               /\ pc' = [pc EXCEPT ![c] = "wait"]
               /\ Step(c, "spawn", TRUE)
               /\ UNCHANGED <<dirs, files, result>>
          ELSE /\ AfterSpawnFailure(c)
               /\ UNCHANGED proc
    /\ UNCHANGED <<samples, enabled, opts, output_dir, output_file, args, output,
                   update_requirement, output_file_content>>

\* the external tool writes its report to the path given with --output
ToolWrite(c) ==
    /\ proc[c].state = "running"
    /\ proc[c].wrote = NoFile
    /\ LET d == ParentDir(OutputArg(args[c]))
       IN  /\ d \in dirs
           /\ \E r \in samples.reports :
                 /\ files' = [files EXCEPT ![d] = r]
                 /\ proc' = [proc EXCEPT ![c].wrote = r]
    /\ UNCHANGED <<samples, enabled, dirs, pc, opts, output_dir, output_file, args,
                   output, update_requirement, output_file_content, result, trace>>

\* the external tool exits
ToolExit(c) ==
    /\ proc[c].state = "running"
    /\ \E code \in samples.codes, out \in samples.stdout, err \in samples.stderr :
          proc' = [proc EXCEPT ![c] = [state |-> "exited", wrote |-> @.wrote,
                                       code |-> code, stdout |-> out, stderr |-> err]]
    /\ UNCHANGED <<samples, enabled, dirs, files, pc, opts, output_dir, output_file,
                   args, output, update_requirement, output_file_content, result,
                   trace>>

\* line 289: cmd.output() returns once the process has exited
WaitExit(c) ==
    /\ pc[c] = "wait"
    /\ proc[c].state = "exited"
    /\ output' = [output EXCEPT ![c] = [code   |-> proc[c].code,
                                        stdout |-> proc[c].stdout,
                                        stderr |-> proc[c].stderr]]
    /\ pc' = [pc EXCEPT ![c] = "log"]
    /\ Step(c, "exit", TRUE)
    /\ UNCHANGED <<samples, enabled, dirs, files, proc, opts, output_dir,
                   output_file, args, update_requirement, output_file_content,
                   result>>

\* from_utf8 is called at all: some event that formats a stream is enabled
Decodes(out, en) ==
    /\ ~Success(out.code)
    /\ en.debug \/ (out.stderr # << >> /\ en.warn)

\* every non-success status fails the call
DecodeFailsOnNonSuccess(out, en) == ~Success(out.code)

\* the streams are decoded lossily
DecodeFailsNever(out, en) == FALSE

\* lines 291-300: from_utf8(..)? inside debug! and warn!; the arguments of an
\* event are evaluated only when the event is enabled
DecodeFails(out, en) ==
    /\ ~Success(out.code)
    /\ \/ en.debug /\ ~Utf8Valid(out.stdout)
       \/ out.stderr # << >> /\ en.warn /\ ~Utf8Valid(out.stderr)

\* lines 291-306: diagnostics of a non-success status, then the verdict
LogOutput(c) ==
    /\ pc[c] = "log"
    /\ IF DecodeFails(output[c], enabled)
       THEN /\ Return(c, Err("Utf8Error"))
            /\ Step(c, "decode", FALSE)
            /\ UNCHANGED update_requirement
       ELSE /\ update_requirement' =
                   [update_requirement EXCEPT ![c] = Classify(output[c].code)]
            /\ pc' = [pc EXCEPT ![c] = "read"]
            /\ IF Decodes(output[c], enabled)
               THEN Step(c, "decode", TRUE)
               ELSE UNCHANGED trace
            /\ UNCHANGED <<dirs, files, result>>
    /\ UNCHANGED <<samples, enabled, proc, opts, output_dir, output_file, args,
                   output, output_file_content>>

\* the file at `path` as std::fs::read_to_string finds it
FileAt(D, F, path) ==
    LET d == ParentDir(path) IN IF d \in D THEN F[d] ELSE NoFile

\* a report that cannot be read counts as an empty report
AfterReadFailureFallback(c) ==
    /\ Return(c, Ok(update_requirement[c], [projects |-> << >>]))
    /\ Step(c, "read", FALSE)

\* line 308, read_to_string(..)? when the file cannot be read
AfterReadFailure(c) ==
    /\ Return(c, Err("Io"))
    /\ Step(c, "read", FALSE)

\* line 308: std::fs::read_to_string(output_file)?
ReadReport(c) ==
    /\ pc[c] = "read"
    /\ LET f == FileAt(dirs, files, output_file[c])
       IN  IF f = NoFile
           THEN /\ AfterReadFailure(c)
                /\ UNCHANGED output_file_content
           ELSE /\ output_file_content' = [output_file_content EXCEPT ![c] = f]
                /\ pc' = [pc EXCEPT ![c] = "deser"]
                /\ Step(c, "read", TRUE)
                /\ UNCHANGED <<dirs, files, result>>
    /\ UNCHANGED <<samples, enabled, proc, opts, output_dir, output_file, args,
                   output, update_requirement>>

\* lines 312-314: deserialize and return
DeserializeReport(c) ==
    /\ pc[c] = "deser"
    /\ LET r == Deserialize(output_file_content[c])
       IN  IF r.ok
           THEN /\ Return(c, Ok(update_requirement[c], r.data))
                /\ Step(c, "deserialize", TRUE)
           ELSE /\ Return(c, Err("Json"))
                /\ Step(c, "deserialize", FALSE)
    /\ UNCHANGED <<samples, enabled, proc, opts, output_dir, output_file, args,
                   output, update_requirement, output_file_content>>

Next ==
    \E c \in Calls :
        \/ Tempdir(c)
        \/ PathToStr(c)
        \/ Spawn(c)
        \/ ToolWrite(c)
        \/ ToolExit(c)
        \/ WaitExit(c)
        \/ LogOutput(c)
        \/ ReadReport(c)
        \/ DeserializeReport(c)

\* the call up to the point where the command is complete
NextArgs == \E c \in Calls : PathToStr(c)

Spec == Init /\ [][Next]_vars

SpecPar == InitPar /\ [][Next]_vars

SpecArgs == InitArgs /\ [][NextArgs]_vars

(***************************************************************************)
(* Helpers of the properties.                                              *)
(***************************************************************************)
Returned(c) == pc[c] = "done"

Exited(c) == proc[c].state = "exited"

StepNames(c) == {trace[c][i].step : i \in 1..Len(trace[c])}

FailedSteps(c) == {trace[c][i].step : i \in {k \in 1..Len(trace[c]) : ~trace[c][k].ok}}

Count(argv, x) == Cardinality({i \in 1..Len(argv) : argv[i] = x})

\* [flag, names[1], flag, names[2], ...]
PairsOf(flag, names) ==
    [i \in 1..(2 * Len(names)) |-> IF i % 2 = 1 THEN flag ELSE names[i \div 2]]

\* the decimal text of a number below 100
Decimal2(n) ==
    LET ds == <<"0", "1", "2", "3", "4", "5", "6", "7", "8", "9">>
    IN  IF n < 10 THEN ds[n + 1] ELSE ds[(n \div 10) + 1] \o ds[(n % 10) + 1]

\* the argument grammar of the external interface, in invocation order
ExpectedArgv(o, tmp) ==
    <<"outdated", "--fail-on-updates", "--output", tmp, "--output-format", "json">>
    \o (IF o.include_auto_references THEN <<"--include-auto-references">> ELSE << >>)
    \o <<"--pre-release",
         CASE o.pre_release = "PreRelease::Never" -> "Never"
           [] o.pre_release = "PreRelease::Auto" -> "Auto"
           [] o.pre_release = "PreRelease::Always" -> "Always">>
    \o PairsOf("--include", o.include)
    \o PairsOf("--exclude", o.exclude)
    \o (IF o.transitive
        THEN <<"--transitive", "--transitive-depth",
               Decimal2(o.transitive_depth)>>
        ELSE << >>)
    \o <<"--version-lock",
         CASE o.version_lock = "VersionLock::None" -> "None"
           [] o.version_lock = "VersionLock::Major" -> "Major"
           [] o.version_lock = "VersionLock::Minor" -> "Minor">>
    \o (IF o.input_dir.some THEN <<o.input_dir.path>> ELSE << >>)

\* the options of the scenario, as the scenario lists them
ScenarioOptions(o) ==
    /\ ~o.transitive
    /\ o.version_lock = "VersionLock::None"
    /\ o.pre_release = "PreRelease::Auto"
    /\ o.include = << >>
    /\ o.exclude = << >>
    /\ ~o.input_dir.some

ScenarioArgv(tmp) ==
    <<"outdated", "--fail-on-updates", "--output", tmp, "--output-format", "json",
      "--pre-release", "Auto", "--version-lock", "None">>

\* the command of call c is complete
CommandBuilt(c) == pc[c] \notin {"unused", "start", "conv"} /\ output_file[c] # NoStr

PreReleaseRenderings == {"Never", "Auto", "Always"}

VersionLockRenderings == {"None", "Major", "Minor"}

FlagOnceWithValue(argv, flag, values) ==
    /\ Count(argv, flag) = 1
    /\ \A i \in 1..Len(argv) :
          argv[i] = flag => i < Len(argv) /\ argv[i + 1] \in values

FlagWithValue(argv, flag, values) ==
    \E i \in 1..(Len(argv) - 1) : argv[i] = flag /\ argv[i + 1] \in values

\* the strings the caller supplies
CallerStrings(o) ==
    {o.include[i] : i \in 1..Len(o.include)}
    \cup {o.exclude[i] : i \in 1..Len(o.exclude)}
    \cup (IF o.input_dir.some THEN {o.input_dir.path} ELSE {})

\* the report of call c's own process is there and deserializes
OwnReportOk(c) == proc[c].wrote # NoFile /\ Deserialize(proc[c].wrote).ok

\* what call c returns when it runs alone with the behaviour its environment showed
SoloResult(c) ==
    IF output_dir[c] = NoDir THEN Err("Io")
    ELSE IF output_dir[c] = NonUtf8Dir THEN Err("PathConversionError")
    ELSE IF proc[c].state = "none" THEN Err("Io")
    ELSE IF ~Success(proc[c].code)
            /\ \/ enabled.debug /\ ~Utf8Valid(proc[c].stdout)
               \/ enabled.warn /\ ~Utf8Valid(proc[c].stderr)
    THEN Err("Utf8Error")
    ELSE IF proc[c].wrote = NoFile THEN Err("Io")
    ELSE IF ~Deserialize(proc[c].wrote).ok THEN Err("Json")
    ELSE Ok(IF proc[c].code = 0 THEN UpToDate ELSE UpdateRequired,
            Deserialize(proc[c].wrote).data)

Live(c) == pc[c] \notin {"unused", "start", "done"}

StepOrder == <<"tempdir", "to_str", "spawn", "exit", "decode", "read", "deserialize">>

StepIndex(name) == CHOOSE i \in 1..Len(StepOrder) : StepOrder[i] = name

(***************************************************************************)
(* Properties.                                                             *)
(***************************************************************************)

\* C1: whenever outdated returns Ok((verdict, data)), the verdict is UpToDate
\* iff the tool's exit status was success and UpdateRequired otherwise,
\* whatever the report holds.
C1_VerdictIffSuccess ==
    \A c \in Calls :
        result[c].kind = "Ok" =>
            /\ Exited(c)
            /\ result[c].verdict = UpToDate <=> proc[c].code = 0
            /\ result[c].verdict = UpdateRequired <=> proc[c].code # 0

\* C1 witness: an Ok result on a non-success status with a report that lists no
\* project, so status and report content disagree.
C1_Witness ==
    \E c \in Calls :
        /\ result[c].kind = "Ok"
        /\ proc[c].code = 2
        /\ result[c].data.projects = << >>
        /\ result[c].verdict = UpdateRequired

\* C2: once a call that created its temporary directory has returned, the
\* directory and the report file in it no longer exist, on every exit path.
C2_TempDirGone ==
    \A c \in Calls :
        Returned(c) /\ output_dir[c] # NoDir =>
            /\ output_dir[c] \notin dirs
            /\ files[output_dir[c]] = NoFile

\* C2 witness: a call returned a deserialization error after its tool had
\* written a report into the directory.
C2_Witness ==
    \E c \in Calls :
        /\ Returned(c)
        /\ result[c] = Err("Json")
        /\ proc[c].wrote # NoFile
        /\ output_dir[c] # NoDir

\* C3 as stated: the argument vector is the concatenation of the grammar, and
\* with transitive=false, version_lock=None, pre_release=Auto, empty
\* include/exclude and no input_dir it is exactly the ten scenario elements.
C3_Original ==
    \A c \in Calls :
        CommandBuilt(c) =>
            /\ args[c] = ExpectedArgv(opts[c], output_file[c])
            /\ ScenarioOptions(opts[c]) => args[c] = ScenarioArgv(output_file[c])

\* C3 amended: the argument vector is the concatenation of the grammar, with
\* the report path inside the call's temporary directory; with the scenario's
\* options and include_auto_references=false it is exactly the ten elements.
C3_ArgvIsGrammar ==
    \A c \in Calls :
        CommandBuilt(c) =>
            /\ output_file[c] = Join(output_dir[c])
            /\ args[c] = ExpectedArgv(opts[c], output_file[c])
            /\ ScenarioOptions(opts[c]) /\ ~opts[c].include_auto_references
                  => args[c] = ScenarioArgv(output_file[c])

\* C3 witness: a command built from options with two different include names,
\* two different exclude names, transitive, and an input directory.
C3_Witness ==
    \E c \in Calls :
        /\ CommandBuilt(c)
        /\ Len(opts[c].include) = 2 /\ opts[c].include[1] # opts[c].include[2]
        /\ Len(opts[c].exclude) = 2 /\ opts[c].exclude[1] # opts[c].exclude[2]
        /\ opts[c].transitive /\ opts[c].transitive_depth = MaxDepth
        /\ opts[c].input_dir.some
        /\ Len(args[c]) = 22

\* C4 as stated: for every options value the argument vector has exactly one
\* element equal to --pre-release and exactly one equal to --version-lock,
\* each immediately followed by a rendering of its enum.
C4_Original ==
    \A c \in Calls :
        CommandBuilt(c) =>
            /\ FlagOnceWithValue(args[c], "--pre-release", PreReleaseRenderings)
            /\ FlagOnceWithValue(args[c], "--version-lock", VersionLockRenderings)

\* C4 amended: every argument vector holds --pre-release followed by a
\* rendering of PreRelease and --version-lock followed by a rendering of
\* VersionLock; when no include name, exclude name or input_dir is itself the
\* string --pre-release or --version-lock, each is the only element equal to
\* its flag.
C4_FlagsOnce ==
    \A c \in Calls :
        CommandBuilt(c) =>
            /\ FlagWithValue(args[c], "--pre-release", PreReleaseRenderings)
            /\ FlagWithValue(args[c], "--version-lock", VersionLockRenderings)
            /\ CallerStrings(opts[c]) \cap {"--pre-release", "--version-lock"} = {}
                  => /\ FlagOnceWithValue(args[c], "--pre-release", PreReleaseRenderings)
                     /\ FlagOnceWithValue(args[c], "--version-lock", VersionLockRenderings)

\* C4 witness: a command built from options with include and exclude names
\* and non-default enum values, none of the names being a flag.
C4_Witness ==
    \E c \in Calls :
        /\ CommandBuilt(c)
        /\ opts[c].include # << >> /\ opts[c].exclude # << >>
        /\ CallerStrings(opts[c]) \cap {"--pre-release", "--version-lock"} = {}
        /\ opts[c].pre_release = "PreRelease::Never"
        /\ opts[c].version_lock = "VersionLock::Major"

\* C5 as stated: whenever the tool was spawned, exited with a non-success
\* status, and the report is readable and deserializes, outdated returns
\* Ok((UpdateRequired, data)); the logging never makes the call fail.
C5_Original ==
    \A c \in Calls :
        Returned(c) /\ Exited(c) /\ proc[c].code # 0 /\ OwnReportOk(c) =>
            result[c] = Ok(UpdateRequired, Deserialize(proc[c].wrote).data)

\* C5 amended: whenever the tool was spawned, exited with a non-success
\* status, its captured stdout and stderr are valid UTF-8, and the report is
\* readable and deserializes, outdated returns Ok((UpdateRequired, data)).
C5_NonSuccessIsNoError ==
    \A c \in Calls :
        /\ Returned(c) /\ Exited(c) /\ proc[c].code # 0 /\ OwnReportOk(c)
        /\ Utf8Valid(proc[c].stdout) /\ Utf8Valid(proc[c].stderr)
        => result[c] = Ok(UpdateRequired, Deserialize(proc[c].wrote).data)

\* C5 witness: a non-success exit with non-empty stdout and stderr, both
\* logged, and the call returned Ok((UpdateRequired, data)).
C5_Witness ==
    \E c \in Calls :
        /\ Returned(c) /\ Exited(c) /\ proc[c].code # 0
        /\ proc[c].stdout # << >> /\ proc[c].stderr # << >>
        /\ enabled.debug /\ enabled.warn
        /\ result[c].kind = "Ok" /\ result[c].verdict = UpdateRequired

\* C6 as stated: whenever the captured stdout or stderr is not valid UTF-8,
\* outdated returns an error, whatever the exit status.
C6_Original ==
    \A c \in Calls :
        /\ Returned(c) /\ Exited(c)
        /\ ~Utf8Valid(proc[c].stdout) \/ ~Utf8Valid(proc[c].stderr)
        => result[c].kind = "Err"

\* C6 amended: outdated returns the decoding error exactly when the exit
\* status is non-success and a stream that an enabled event formats is not
\* valid UTF-8 (stdout with the debug event enabled, stderr with the warn
\* event enabled); with a success status no stream is decoded.
C6_DecodingErrorPropagates ==
    \A c \in Calls :
        Returned(c) /\ Exited(c) =>
            /\ result[c] = Err("Utf8Error")
                 <=> /\ proc[c].code # 0
                     /\ \/ enabled.debug /\ ~Utf8Valid(proc[c].stdout)
                        \/ enabled.warn /\ ~Utf8Valid(proc[c].stderr)
            /\ proc[c].code = 0 => "decode" \notin StepNames(c)

\* C6 witness: a non-success exit with valid stdout and malformed stderr, and
\* the call returned the decoding error.
C6_Witness ==
    \E c \in Calls :
        /\ Returned(c) /\ Exited(c) /\ proc[c].code # 0
        /\ Utf8Valid(proc[c].stdout) /\ ~Utf8Valid(proc[c].stderr)
        /\ result[c] = Err("Utf8Error")

\* C7: if any step of a call fails, the call returns Err with no verdict and
\* no data; when the tool ran and exited but the report cannot be read, the
\* result is an error, never a verdict-only result.
C7_FailsAtomically ==
    \A c \in Calls :
        /\ FailedSteps(c) # {} =>
              /\ Returned(c)
              /\ result[c].kind = "Err"
              /\ DOMAIN result[c] = {"kind", "error"}
        /\ Returned(c) /\ Exited(c) /\ "read" \in FailedSteps(c) =>
              result[c] = Err("Io")
        /\ result[c].kind = "Ok" => FailedSteps(c) = {}

\* C7 witness: the tool exited with success without writing a report, and
\* the read of the report failed.
C7_Witness ==
    \E c \in Calls :
        /\ Returned(c) /\ Exited(c) /\ proc[c].code = 0
        /\ proc[c].wrote = NoFile
        /\ "read" \in FailedSteps(c)

\* C8: the options value of Default::default() has version_lock=None,
\* pre_release=Auto, transitive=false, transitive_depth=1, empty include and
\* exclude, include_auto_references=false and no input_dir.
C8_DefaultsAsDocumented ==
    \A c \in Calls :
        opts[c] = DefaultOptions =>
            /\ opts[c].version_lock = "VersionLock::None"
            /\ opts[c].pre_release = "PreRelease::Auto"
            /\ opts[c].transitive = FALSE
            /\ opts[c].transitive_depth = 1
            /\ opts[c].include = << >>
            /\ opts[c].exclude = << >>
            /\ opts[c].include_auto_references = FALSE
            /\ opts[c].input_dir = NoInputDir

\* C9: concurrent calls do not interfere: live calls own distinct existing
\* directories, the file in a call's directory and the report it read are
\* what its own process wrote, and each result is the result of running alone.
C9_NoInterference ==
    \A c \in Calls :
        /\ Live(c) =>
              /\ output_dir[c] \in dirs
              /\ \A c2 \in Calls \ {c} : Live(c2) => output_dir[c2] # output_dir[c]
              /\ files[output_dir[c]] = proc[c].wrote
        /\ output_file_content[c] # NoFile => output_file_content[c] = proc[c].wrote
        /\ Returned(c) => result[c] = SoloResult(c)

\* C9 witness: two calls have read their reports at the same time, and the
\* reports differ.
C9_Witness ==
    \E c1, c2 \in Calls :
        /\ c1 # c2
        /\ pc[c1] = "deser" /\ pc[c2] = "deser"
        /\ output_file_content[c1] = ReportEmpty
        /\ output_file_content[c2] = ReportDeps

\* C10: the steps of a call happen in the order tempdir, to_str, spawn, exit,
\* (decode), read, deserialize, each at most once and only after every
\* earlier step succeeded; no process without directory and path, no read
\* before the process exited or after a decoding failure.
C10_StepOrder ==
    \A c \in Calls :
        LET t == trace[c]
        IN  /\ t # << >> => t[1].step = "tempdir"
            /\ \A i \in 1..(Len(t) - 1) :
                  /\ t[i].ok
                  /\ \/ StepIndex(t[i + 1].step) = StepIndex(t[i].step) + 1
                     \/ t[i].step = "exit" /\ t[i + 1].step = "read"
            /\ "decode" \in StepNames(c) => proc[c].code # 0
            /\ proc[c].state # "none" =>
                  {"tempdir", "to_str", "spawn"} \subseteq StepNames(c) \ FailedSteps(c)
            /\ "read" \in StepNames(c) => Exited(c) /\ "decode" \notin FailedSteps(c)
            /\ FailedSteps(c) # {} => Returned(c)

\* C10 witness: a call went through all seven steps, decoding included.
C10_Witness ==
    \E c \in Calls :
        /\ Returned(c)
        /\ Len(trace[c]) = 7
        /\ result[c].kind = "Ok"

====
